---- MODULE Spec2Model ----
(***************************************************************************)
(* A model of imggen's batch generation: generate_from_prompt              *)
(* (src/src/imggen/generator.py) run from main (src/src/imggen/cli.py),    *)
(* the ThreadPoolExecutor it drives, the pricing lookup and the metadata   *)
(* writer.                                                                 *)
(*                                                                         *)
(* Conventions.  A Python value that may be None is a tuple: <<>> is None  *)
(* and <<v>> is the value v.  A dict is a function from its keys to such   *)
(* tuples.  Money is counted in millionths of a dollar, so that every      *)
(* price of the tables and every token rate is an integer.                 *)
(***************************************************************************)
EXTENDS Integers, Sequences, FiniteSets, TLC

\* Largest number of variations the model runs (generate_from_prompt itself
\* accepts any positive number; only the CLI restricts it to 1..4).
MaxVariations == 3

\* generator.py:253, max_workers = min(4, variations)
MaxWorkers == 4

NoneV == <<>>
Some(v) == <<v>>
EmptyDict == [k \in {} |-> NoneV]

\* dict.get(k): the value, or None when the key is absent.
Get(d, k) == IF k \in DOMAIN d THEN d[k] ELSE NoneV

\* Truth value of an optional string (None and "" are falsy).
TruthyStr(v) == v # NoneV /\ v[1] # ""

\* Truth value of an optional boolean.
TruthyBool(v) == v # NoneV /\ v[1] = TRUE

Min(a, b) == IF a <= b THEN a ELSE b

RECURSIVE SumOver(_, _)
SumOver(S, f) ==
    IF S = {} THEN 0
    ELSE LET x == CHOOSE y \in S : TRUE IN f[x] + SumOver(S \ {x}, f)

-----------------------------------------------------------------------------
(* File names *)

\* Mutant: f"{i}", the digits without the padding.
Pad3_Unpadded(i) == IF i < 10 THEN <<i>> ELSE <<i \div 10, i % 10>>

\* f"{i:03d}": the decimal digits of i, zero-padded to a width of 3.
Pad3(i) ==
    IF i < 1000 THEN <<(i \div 100) % 10, (i \div 10) % 10, i % 10>>
    ELSE <<(i \div 1000) % 10, (i \div 100) % 10, (i \div 10) % 10, i % 10>>

\* f"imggen_{i:03d}.png": the stem's pieces, the digits, the extension.
ImageName(i) == << <<"imggen_">>, Pad3(i), "png">>

\* filename.rsplit(".", 1)[0] + ".json"
JsonName(filename) == <<filename[1], filename[2], "json">>

\* A path is the sequence of its components, each a stem and an extension
\* ("" when it has none).
IMAGE_EXTENSIONS == {"png", "jpg", "jpeg"}

\* parse_output_path(output): the directory and the basename; a path whose last
\* component carries an image extension names a file.
parse_output_path(path) ==
    LET last == path[Len(path)]
    IN IF last[2] \in IMAGE_EXTENSIONS
       THEN <<IF Len(path) = 1 THEN << <<".", "">> >>
              ELSE SubSeq(path, 1, Len(path) - 1),
              Some(last[1])>>
       ELSE <<path, NoneV>>

\* generate_filename(basename, index, total)
generate_filename(basename, index, total) ==
    IF basename = NoneV THEN ImageName(index)
    ELSE IF total = 1 THEN << <<basename[1]>>, <<>>, "png">>
    ELSE << <<basename[1], "_">>, <<index>>, "png">>

-----------------------------------------------------------------------------
(* Pricing (pricing.py), in millionths of a dollar *)

DEFAULT_PROVIDER == "openai"
DEFAULT_RESOLUTION == "1K"
DEFAULT_QUALITY == "low"

GOOGLE_PRICING == ("1K" :> 134000) @@ ("2K" :> 134000) @@ ("4K" :> 240000)
OPENAI_PRICING == ("low" :> 9000) @@ ("medium" :> 34000) @@ ("high" :> 133000)

\* provider, resolution and quality are optional strings.
get_image_cost(provider, resolution, quality) ==
    LET p == IF TruthyStr(provider) THEN provider[1] ELSE DEFAULT_PROVIDER IN
    IF p = "google" THEN
        LET r == IF TruthyStr(resolution) THEN resolution[1] ELSE DEFAULT_RESOLUTION
        IN IF r \in DOMAIN GOOGLE_PRICING THEN GOOGLE_PRICING[r]
           ELSE GOOGLE_PRICING[DEFAULT_RESOLUTION]
    ELSE IF p = "openai" THEN
        LET q == IF TruthyStr(quality) THEN quality[1] ELSE DEFAULT_QUALITY
        IN IF q \in DOMAIN OPENAI_PRICING THEN OPENAI_PRICING[q]
           ELSE OPENAI_PRICING[DEFAULT_QUALITY]
    ELSE 0

calculate_image_cost(provider, quality, resolution) ==
    get_image_cost(provider, resolution, quality)

-----------------------------------------------------------------------------
(* Provider registry (imggen/providers/__init__.py) *)

\* Model names are sequences of characters, so that prefixes can be matched.
StartsWith(s, p) == Len(s) >= Len(p) /\ SubSeq(s, 1, Len(p)) = p

GOOGLE_PREFIXES == { <<"g","e","m","i","n","i","-">>, <<"g","o","o","g","l","e","-">> }
OPENAI_PREFIXES == { <<"g","p","t","-">>, <<"d","a","l","l","-","e","-">> }

\* Prefix matching; an unmatched model name selects the default provider.
infer_provider_from_model(m) ==
    IF \E p \in GOOGLE_PREFIXES : StartsWith(m, p) THEN "google"
    ELSE IF \E p \in OPENAI_PREFIXES : StartsWith(m, p) THEN "openai"
    ELSE DEFAULT_PROVIDER

KnownProviders == {"openai", "google"}

\* get_provider(name, api_key): the adapter, or None where the code raises
\* ValueError("Unknown provider ...").
get_provider(name, api_key) ==
    IF name \in KnownProviders THEN <<name, api_key>> ELSE NoneV

\* get_api_key_for_provider(provider_name): the key configured for the
\* provider (imggen/config.py); a key is configured for each provider.
get_api_key_for_provider(name) == <<"key", name>>

\* provider.get_generate_model(): each adapter's GENERATE_MODEL.
get_generate_model(p) ==
    IF p = "openai" THEN <<"g","p","t","-","i","m","a","g","e","-","1",".","5">>
    ELSE <<"g","e","m","i","n","i","-","3","-","p","r","o","-",
           "i","m","a","g","e","-","p","r","e","v","i","e","w">>

-----------------------------------------------------------------------------
(* Provider adapters, as generate_from_prompt sees them: one call, one      *)
(* returned dict (or a raised exception).                                   *)

\* openai_provider.py: full_prompt, the prompt with the aspect ratio appended.
FullPrompt(prompt, aspect_ratio) ==
    IF TruthyStr(aspect_ratio) THEN prompt \o <<"[aspect_ratio]", aspect_ratio[1]>>
    ELSE prompt

OpenAIQuality(quality) ==
    LET q == IF TruthyStr(quality) THEN quality[1] ELSE "low"
    IN IF q \in {"low", "medium", "high"} THEN q ELSE "low"

OpenAISize(aspect_ratio) ==
    IF aspect_ratio = Some("1:1") THEN "1024x1024"
    ELSE IF aspect_ratio = Some("16:9") THEN "1792x1024"
    ELSE IF aspect_ratio = Some("9:16") THEN "1024x1792"
    ELSE IF aspect_ratio = Some("4:3") THEN "1360x1024"
    ELSE IF aspect_ratio = Some("3:4") THEN "1024x1360"
    ELSE "1024x1024"

calculate_openai_image_cost(quality, size) ==
    IF size = "1024x1024" THEN
        (IF quality = "low" THEN 9000 ELSE IF quality = "medium" THEN 34000
         ELSE IF quality = "high" THEN 133000 ELSE 0)
    ELSE IF size \in {"1024x1536", "1536x1024"} THEN
        (IF quality = "low" THEN 13000 ELSE IF quality = "medium" THEN 50000
         ELSE IF quality = "high" THEN 200000 ELSE 0)
    ELSE 0

calculate_google_image_cost(prompt_tokens, output_tokens) ==
    prompt_tokens * 2 + output_tokens * 120

Failure(error) == ("status" :> Some("failed")) @@ ("error" :> Some(error))

RateLimitFailure ==
    Failure("Rate limit exceeded") @@ ("rate_limited" :> Some(TRUE))

\* What the vendor may answer with: the response's own revised prompt (OpenAI)
\* or its token usage (Google).
Responses == {"plain", "rich"}

OpenAISuccess(filename, prompt, aspect_ratio, quality, resp) ==
    LET q == OpenAIQuality(quality)
        sz == OpenAISize(aspect_ratio)
    IN ("status" :> Some("success")) @@ ("filename" :> Some(filename))
       @@ ("revised_prompt" :>
             Some(IF resp = "rich" THEN <<"revised">>
                  ELSE FullPrompt(prompt, aspect_ratio)))
       @@ ("created" :> Some("2025-01-14T10:00:00+00:00"))
       @@ ("quality" :> Some(q)) @@ ("size" :> Some(sz))
       @@ ("cost_usd" :> Some(calculate_openai_image_cost(q, sz)))

GoogleSuccess(filename, resp) ==
    LET pt == IF resp = "rich" THEN 10 ELSE 0
        ot == IF resp = "rich" THEN 1290 ELSE 0
    IN ("status" :> Some("success")) @@ ("filename" :> Some(filename))
       @@ ("model_version" :> Some("gemini-3-pro-image-preview"))
       @@ ("response_id" :> Some(""))
       @@ ("finish_reason" :> Some("UNKNOWN"))
       @@ ("prompt_tokens" :> Some(pt)) @@ ("output_tokens" :> Some(ot))
       @@ ("cost_usd" :> Some(calculate_google_image_cost(pt, ot)))

\* The dicts provider.generate_image may return for one slot.
AdapterReturns(p, filename, prompt, aspect_ratio, quality) ==
    { IF p = "openai" THEN OpenAISuccess(filename, prompt, aspect_ratio, quality, r)
      ELSE GoogleSuccess(filename, r) : r \in Responses }
    \cup { Failure("No image data in response"), RateLimitFailure }

\* What one provider.generate_image call does: return a dict, or raise.
Return(d) == [kind |-> "return", value |-> d]
Raise(text) == [kind |-> "raise", value |-> text]

AdapterOutcomes(p, filename, prompt, aspect_ratio, quality) ==
    { Return(d) : d \in AdapterReturns(p, filename, prompt, aspect_ratio, quality) }
    \cup { Raise("exception text") }

\* generate_single_image: the adapter's dict, or a plain Failure (no
\* rate_limited key) for anything the adapter raised.
generate_single_image(outcome) ==
    IF outcome.kind = "raise" THEN Failure(outcome.value) ELSE outcome.value

-----------------------------------------------------------------------------
(* Metadata writer *)

\* Mutant: "if value:", which also drops a falsy value ("" or 0.0).
Entry_Truthy(key, v) ==
    IF /\ v # NoneV
       /\ ~(key = "cost_usd" /\ v[1] = 0)
       /\ ~(key # "cost_usd" /\ v[1] = "")
    THEN key :> v[1] ELSE EmptyDict

\* One optional entry of the record: present only when the value is not None.
Entry(key, v) == IF v # NoneV THEN key :> v[1] ELSE EmptyDict

\* The provider-specific extras: every key of kwargs whose value is not None.
ExtraEntries(kwargs) ==
    [k \in {x \in DOMAIN kwargs : kwargs[x] # NoneV} |-> kwargs[k][1]]

IncludeRevised(original_prompt, revised_prompt) ==
    revised_prompt # NoneV /\ revised_prompt[1] # original_prompt

\* save_metadata_file: the dict that json.dump writes.
MetadataRecord(original_prompt, provider, model, revised_prompt, created, quality, size, cost_usd, kwargs) ==
    ("original_prompt" :> original_prompt) @@ ("provider" :> provider)
    @@ ("model" :> model)
    @@ (IF IncludeRevised(original_prompt, revised_prompt)
        THEN "revised_prompt" :> revised_prompt[1] ELSE EmptyDict)
    @@ Entry("created", created) @@ Entry("quality", quality)
    @@ Entry("size", size) @@ Entry("cost_usd", cost_usd)
    @@ ExtraEntries(kwargs)

ExtraKeys ==
    {"model_version", "response_id", "finish_reason", "prompt_tokens", "output_tokens"}

\* The call of save_metadata_file in generate_from_prompt's display loop.
SidecarFor(prompt, p, result) ==
    MetadataRecord(prompt, p, get_generate_model(p),
                   Get(result, "revised_prompt"), Get(result, "created"),
                   Get(result, "quality"), Get(result, "size"),
                   Get(result, "cost_usd"),
                   [k \in ExtraKeys |-> Get(result, k)])

-----------------------------------------------------------------------------
(* The run: main -> generate_from_prompt -> ThreadPoolExecutor workers *)

VARIABLES
    args,            \* the arguments of generate_from_prompt (never reassigned)
    provider_name,   \* the provider_name argument, reassigned at line 210
    provider,        \* the adapter get_provider returned: its name and its
                     \* API key, None before
    cost_per_image,
    fs0,             \* the output directory when generate_from_prompt is called
    fs,              \* the output directory: the names of its files
    meta,            \* the contents of the sidecars written, by file name
    pc,              \* where the main thread is
    next_i,          \* the submit loop's i
    work_queue,      \* executor._work_queue: submitted slots no worker has taken
    num_threads,     \* len(executor._threads)
    idle_sem,        \* executor._idle_semaphore
    shutdown_flag,   \* executor._shutdown
    task,            \* per slot: unsubmitted, queued, running or finished
    future,          \* per slot: what future.result() returns, None before
    results,         \* the dict results of the collection loop
    rate_limited,
    fin_i,           \* the display loop's i
    successful,
    failed,
    errors,
    console,         \* what was printed, in order
    meta_log,        \* the slots whose sidecar was written, in order
    actual_cost,
    exit_code,       \* the process's exit code, None while it runs
    calls,           \* the provider.generate_image calls started so far
    out_of_order,    \* history: a result was collected after a higher slot's
    futures,         \* the dict futures: per submitted slot, its filename
    \* one provider.generate_image call, followed statement by statement
    request,         \* the call's arguments, None when no call is followed
    apc,             \* where the call is
    attempt,         \* the retry loop's attempt
    image_files,     \* the reference images opened so far: open or closed
    api_calls,       \* the requests made to the vendor's API
    response,        \* what the vendor answered last, None before
    ret,             \* what the call returned, None while it runs
    \* main()
    cli_args,        \* the argparse Namespace
    cli_files,       \* the prompt file and the references file, as found
    cli_locals       \* main's prompt and references, None before they are set

call_vars == <<request, apc, attempt, image_files, api_calls, response, ret>>

main_vars == <<cli_args, cli_files, cli_locals>>

vars == <<args, provider_name, provider, cost_per_image, fs0, fs, meta, pc,
          next_i, work_queue, num_threads, idle_sem, shutdown_flag, task,
          future, results, rate_limited, fin_i, successful, failed, errors,
          console, meta_log, actual_cost, exit_code, calls, out_of_order,
          futures, call_vars, main_vars>>

\* No generate_image call is followed on its own.
CallIdle ==
    /\ request = NoneV /\ apc = "none" /\ attempt = 0 /\ image_files = <<>>
    /\ api_calls = 0 /\ response = NoneV /\ ret = NoneV

\* generate_from_prompt is called directly, not through main().
MainIdle == cli_args = NoneV /\ cli_files = NoneV /\ cli_locals = NoneV

\* range(1, variations + 1): the slots of the batch, none before the call.
Slots == DOMAIN task

Prompt == <<"a cat">>
GeminiModel == <<"g","e","m","i","n","i","-","2",".","0">>

\* The option combinations the model runs.
\* The --output values: a directory, and a file name in it.
OutDir == << <<"images", "">> >>
OutFile == << <<"images", "">>, <<"sunset", "png">> >>

Configs ==
    { [provider_name |-> "openai", api_key |-> <<"key", "openai">>,
       model |-> NoneV, quality |-> NoneV,
       resolution |-> NoneV, aspect_ratio |-> NoneV, output_dir |-> OutDir],
      [provider_name |-> "openai", api_key |-> <<"key", "openai">>,
       model |-> NoneV, quality |-> Some("high"),
       resolution |-> NoneV, aspect_ratio |-> Some("16:9"), output_dir |-> OutDir],
      [provider_name |-> "google", api_key |-> <<"key", "google">>,
       model |-> NoneV, quality |-> NoneV,
       resolution |-> Some("4K"), aspect_ratio |-> NoneV, output_dir |-> OutDir],
      [provider_name |-> "openai", api_key |-> <<"key", "openai">>,
       model |-> Some(GeminiModel), quality |-> NoneV,
       resolution |-> NoneV, aspect_ratio |-> NoneV, output_dir |-> OutDir],
      [provider_name |-> "unknown", api_key |-> <<"key", "unknown">>,
       model |-> NoneV, quality |-> NoneV,
       resolution |-> NoneV, aspect_ratio |-> NoneV, output_dir |-> OutDir],
      [provider_name |-> "openai", api_key |-> <<"key", "openai">>,
       model |-> NoneV, quality |-> NoneV,
       resolution |-> NoneV, aspect_ratio |-> NoneV, output_dir |-> OutFile] }

\* cli.py:302-304 makes the directory part of --output only: output_dir is a
\* directory unless the path names a file.
IsDirectory(output_dir) == parse_output_path(output_dir)[2] = NoneV

\* The directories the model starts from: empty, or holding some of the
\* first and third image.
Directories == SUBSET {ImageName(1), ImageName(3)}

\* Nothing has been submitted, collected or printed yet.
RunFresh ==
    /\ provider = NoneV
    /\ cost_per_image = 0
    /\ meta = EmptyDict
    /\ next_i = 1
    /\ work_queue = <<>>
    /\ num_threads = 0
    /\ idle_sem = 0
    /\ shutdown_flag = FALSE
    /\ results = EmptyDict
    /\ rate_limited = FALSE
    /\ fin_i = 1
    /\ successful = 0
    /\ failed = 0
    /\ errors = <<>>
    /\ console = <<>>
    /\ meta_log = <<>>
    /\ actual_cost = 0
    /\ exit_code = NoneV
    /\ calls = 0
    /\ out_of_order = FALSE
    /\ futures = EmptyDict
    /\ CallIdle

RunInit(c, n, dry, dir) ==
    /\ args = [variations |-> n, dry_run |-> dry, prompt |-> Prompt,
               output_dir |-> c.output_dir, api_key |-> c.api_key,
               model |-> c.model, quality |-> c.quality,
               resolution |-> c.resolution, aspect_ratio |-> c.aspect_ratio]
    /\ provider_name = c.provider_name
    /\ fs0 = dir
    /\ fs = dir
    /\ pc = "start"
    /\ task = [i \in 1 .. n |-> "unsubmitted"]
    /\ future = [i \in 1 .. n |-> NoneV]
    /\ RunFresh
    /\ MainIdle

\* What is no directory holds no files.
Init ==
    \E c \in Configs, n \in 1 .. MaxVariations, dry \in BOOLEAN, dir \in Directories :
        /\ IsDirectory(c.output_dir) \/ dir = {}
        /\ RunInit(c, n, dry, dir)

\* check_file_collisions(output_dir, variations): the existing target names,
\* in the order of the loop.
\* Mutant: each existing name is put in front of the ones found before it.
RECURSIVE CollisionsUpTo_Prepends(_, _)
CollisionsUpTo_Prepends(dir, n) ==
    IF n = 0 THEN <<>>
    ELSE (IF ImageName(n) \in dir THEN <<ImageName(n)>> ELSE <<>>)
         \o CollisionsUpTo_Prepends(dir, n - 1)

RECURSIVE CollisionsUpTo(_, _)
CollisionsUpTo(dir, n) ==
    IF n = 0 THEN <<>>
    ELSE CollisionsUpTo(dir, n - 1)
         \o (IF ImageName(n) \in dir THEN <<ImageName(n)>> ELSE <<>>)

\* Mutant: range(1, variations), which leaves the last slot unchecked.
check_file_collisions_SkipsLast(dir, variations) ==
    LET collisions == CollisionsUpTo(dir, variations - 1)
    IN <<Len(collisions) > 0, collisions>>

check_file_collisions(dir, variations) ==
    LET collisions == CollisionsUpTo(dir, variations)
    IN <<Len(collisions) > 0, collisions>>

\* Mutant: a dry run skips the collision check.
CheckCollisions_SkippedByDryRun ==
    /\ pc = "start"
    /\ LET r == check_file_collisions(fs, args.variations) IN
         IF r[1] /\ ~args.dry_run
         THEN /\ pc' = "raised"
              /\ console' = Append(console, [kind |-> "collision_error", files |-> r[2]])
         ELSE /\ pc' = "resolve"
              /\ UNCHANGED console
    /\ UNCHANGED <<args, provider_name, provider, cost_per_image, fs0, fs, meta,
                   next_i, work_queue, num_threads, idle_sem, shutdown_flag, task,
                   future, results, rate_limited, fin_i, successful, failed,
                   errors, meta_log, actual_cost, exit_code, calls,
                   out_of_order, futures, call_vars,
                   main_vars>>

\* generator.py:203-206
CheckCollisions ==
    /\ pc = "start"
    /\ LET r == check_file_collisions(fs, args.variations) IN
         IF r[1]
         THEN /\ pc' = "raised"
              /\ console' = Append(console, [kind |-> "collision_error", files |-> r[2]])
         ELSE /\ pc' = "resolve"
              /\ UNCHANGED console
    /\ UNCHANGED <<args, provider_name, provider, cost_per_image, fs0, fs, meta,
                   next_i, work_queue, num_threads, idle_sem, shutdown_flag, task,
                   future, results, rate_limited, fin_i, successful, failed,
                   errors, meta_log, actual_cost, exit_code, calls,
                   out_of_order, futures, call_vars,
                   main_vars>>

\* Mutant: the provider is inferred from the model, the API key is not
\* looked up again.
ResolveProvider_KeepsKey ==
    /\ pc = "resolve"
    /\ LET name == IF TruthyStr(args.model)
                   THEN infer_provider_from_model(args.model[1])
                   ELSE provider_name
           key == args.api_key
       IN /\ provider_name' = name
          /\ provider' = get_provider(name, key)
          /\ pc' = IF get_provider(name, key) = NoneV THEN "raised" ELSE "estimate"
          /\ console' = IF get_provider(name, key) = NoneV
                        THEN Append(console, [kind |-> "unknown_provider"])
                        ELSE console
    /\ UNCHANGED <<args, cost_per_image, fs0, fs, meta, next_i, work_queue,
                   num_threads, idle_sem, shutdown_flag, task, future, results,
                   rate_limited, fin_i, successful, failed, errors, meta_log,
                   actual_cost, exit_code, calls,
                   out_of_order, futures, call_vars,
                   main_vars>>

\* generator.py:208-213
ResolveProvider ==
    /\ pc = "resolve"
    /\ LET name == IF TruthyStr(args.model)
                   THEN infer_provider_from_model(args.model[1])
                   ELSE provider_name
           key == IF TruthyStr(args.model)
                  THEN get_api_key_for_provider(name)
                  ELSE args.api_key
       IN /\ provider_name' = name
          /\ provider' = get_provider(name, key)
          /\ pc' = IF get_provider(name, key) = NoneV THEN "raised" ELSE "estimate"
          /\ console' = IF get_provider(name, key) = NoneV
                        THEN Append(console, [kind |-> "unknown_provider"])
                        ELSE console
    /\ UNCHANGED <<args, cost_per_image, fs0, fs, meta, next_i, work_queue,
                   num_threads, idle_sem, shutdown_flag, task, future, results,
                   rate_limited, fin_i, successful, failed, errors, meta_log,
                   actual_cost, exit_code, calls,
                   out_of_order, futures, call_vars,
                   main_vars>>

\* Mutant: the dry-run return is missing.
AfterEstimate_Proceeds(dry_run) == "submit"

\* generator.py:239-243: a dry run returns after the estimate is printed.
AfterEstimate(dry_run) == IF dry_run THEN "returned" ELSE "submit"

\* generator.py:215-253
Estimate ==
    /\ pc = "estimate"
    /\ cost_per_image' =
           calculate_image_cost(Some(provider_name), args.quality, args.resolution)
    /\ console' = Append(console,
           [kind |-> "estimate", cost |-> cost_per_image' * args.variations])
    /\ pc' = AfterEstimate(args.dry_run)
    /\ UNCHANGED <<args, provider_name, provider, fs0, fs, meta, next_i,
                   work_queue, num_threads, idle_sem, shutdown_flag, task, future,
                   results, rate_limited, fin_i, successful, failed, errors,
                   meta_log, actual_cost, exit_code, calls,
                   out_of_order, futures, call_vars,
                   main_vars>>

\* Mutant: one worker per variation, whatever their number.
max_workers_Unbounded == args.variations

\* generator.py:253
max_workers == Min(MaxWorkers, args.variations)

\* generator.py:258-273, one turn of the loop: executor.submit queues the work
\* item, then takes an idle worker's token or starts a thread while fewer than
\* max_workers exist.
Submit ==
    /\ pc = "submit"
    /\ next_i <= args.variations
    /\ work_queue' = Append(work_queue, next_i)
    /\ task' = [task EXCEPT ![next_i] = "queued"]
    /\ futures' = (next_i :> ImageName(next_i)) @@ futures
    /\ IF idle_sem > 0
       THEN idle_sem' = idle_sem - 1 /\ UNCHANGED num_threads
       ELSE /\ UNCHANGED idle_sem
            /\ num_threads' = IF num_threads < max_workers
                              THEN num_threads + 1 ELSE num_threads
    /\ next_i' = next_i + 1
    /\ pc' = IF next_i = args.variations THEN "collect" ELSE "submit"
    /\ UNCHANGED <<args, provider_name, provider, cost_per_image, fs0, fs, meta,
                   shutdown_flag, future, results, rate_limited, fin_i,
                   successful, failed, errors, console, meta_log, actual_cost,
                   exit_code, calls,
                   out_of_order, call_vars, main_vars>>

Running == {i \in Slots : task[i] = "running"}

\* A worker thread takes the next work item and calls generate_single_image,
\* which calls provider.generate_image.
WorkerStart ==
    /\ work_queue # <<>>
    /\ Cardinality(Running) < num_threads
    /\ task' = [task EXCEPT ![Head(work_queue)] = "running"]
    /\ work_queue' = Tail(work_queue)
    /\ calls' = calls + 1
    /\ UNCHANGED <<args, provider_name, provider, cost_per_image, fs0, fs, meta,
                   pc, next_i, num_threads, idle_sem, shutdown_flag, future,
                   results, rate_limited, fin_i, successful, failed, errors,
                   console, meta_log, actual_cost, exit_code,
                   out_of_order, futures, call_vars,
                   main_vars>>

\* The call returns (a success has written its image) or raises; the worker
\* sets the future's result and releases the idle semaphore.
WorkerFinish(i, outcome) ==
    /\ task[i] = "running"
    /\ LET result == generate_single_image(outcome) IN
         /\ future' = [future EXCEPT ![i] = Some(result)]
         /\ fs' = IF Get(result, "status") = Some("success")
                  THEN fs \cup {futures[i]} ELSE fs
    /\ task' = [task EXCEPT ![i] = "finished"]
    /\ idle_sem' = idle_sem + 1
    /\ UNCHANGED <<args, provider_name, provider, cost_per_image, fs0, meta, pc,
                   next_i, work_queue, num_threads, shutdown_flag, results,
                   rate_limited, fin_i, successful, failed, errors, console,
                   meta_log, actual_cost, exit_code, calls,
                   out_of_order, futures, call_vars,
                   main_vars>>

\* generator.py:282, the test that ends the collection loop.
IsRateLimited(result) == TruthyBool(Get(result, "rate_limited"))

\* Mutant: the break is missing.
BreakOn_Never(result) == FALSE

\* Mutant: any failed result ends the loop.
BreakOn_AnyFailure(result) == Get(result, "status") = Some("failed")

BreakOn(result) == IsRateLimited(result)

\* Mutant: the result is stored under the number of results collected so far,
\* not under the slot's index.
Collect_KeyedByCount(i) ==
    /\ pc = "collect"
    /\ task[i] = "finished"
    /\ i \notin DOMAIN results
    /\ LET result == future[i][1]
           k == Cardinality(DOMAIN results) + 1
       IN
         /\ results' = (k :> <<futures[i], result>>) @@ results
         /\ rate_limited' = (rate_limited \/ IsRateLimited(result))
         /\ shutdown_flag' = (shutdown_flag \/ IsRateLimited(result))
         /\ pc' = IF BreakOn(result) \/ DOMAIN results' = Slots
                  THEN "finalize" ELSE "collect"
    /\ out_of_order' = (out_of_order \/ \E j \in DOMAIN results : j > i)
    /\ UNCHANGED <<args, provider_name, provider, cost_per_image, fs0, fs, meta,
                   next_i, work_queue, num_threads, idle_sem, task, future, fin_i,
                   successful, failed, errors, console, meta_log, actual_cost,
                   exit_code, calls, futures, call_vars,
                   main_vars>>

\* generator.py:277-286, one turn of the loop: as_completed yields a finished
\* future not yet yielded.
Collect(i) ==
    /\ pc = "collect"
    /\ task[i] = "finished"
    /\ i \notin DOMAIN results
    /\ LET result == future[i][1] IN
         /\ results' = (i :> <<futures[i], result>>) @@ results
         /\ rate_limited' = (rate_limited \/ IsRateLimited(result))
         /\ shutdown_flag' = (shutdown_flag \/ IsRateLimited(result))
         /\ pc' = IF BreakOn(result) \/ DOMAIN results' = Slots
                  THEN "finalize" ELSE "collect"
    /\ out_of_order' = (out_of_order \/ \E j \in DOMAIN results : j > i)
    /\ UNCHANGED <<args, provider_name, provider, cost_per_image, fs0, fs, meta,
                   next_i, work_queue, num_threads, idle_sem, task, future, fin_i,
                   successful, failed, errors, console, meta_log, actual_cost,
                   exit_code, calls, futures, call_vars,
                   main_vars>>

\* Mutant: the display loop runs from the last slot down.
DisplayOrder_Descending(variations) == [k \in 1 .. variations |-> variations + 1 - k]

\* generator.py:289, the order of the display loop.
DisplayOrder(variations) == [k \in 1 .. variations |-> k]

\* Mutant: a slot without a result is counted as failed.
CountSlot_SkippedFailed(i, res, s, f) ==
    IF i \in DOMAIN res
    THEN IF res[i][2]["status"] = Some("success") THEN <<s + 1, f>> ELSE <<s, f + 1>>
    ELSE <<s, f + 1>>

\* generator.py:290-317: the counters after the display loop's turn for slot i.
CountSlot(i, res, s, f) ==
    IF i \in DOMAIN res
    THEN IF res[i][2]["status"] = Some("success") THEN <<s + 1, f>> ELSE <<s, f + 1>>
    ELSE <<s, f>>

\* Mutant: the sidecar records the model override when there is one.
FinalizeSlot_OverrideModel ==
    /\ pc = "finalize"
    /\ LET i == DisplayOrder(args.variations)[fin_i] IN
         IF i \in DOMAIN results
         THEN LET filename == results[i][1]
                  result == results[i][2]
              IN IF result["status"] = Some("success")
                 THEN /\ console' = Append(console,
                            [kind |-> "slot", slot |-> i, filename |-> filename,
                             mark |-> "ok"])
                      /\ fs' = fs \cup {JsonName(filename)}
                      /\ meta' = (JsonName(filename) :>
                                    [SidecarFor(args.prompt, provider[1], result)
                                       EXCEPT !["model"] =
                                         IF TruthyStr(args.model)
                                         THEN args.model[1] ELSE @])
                                 @@ meta
                      /\ meta_log' = Append(meta_log, i)
                      /\ UNCHANGED errors
                 ELSE /\ console' = Append(console,
                            [kind |-> "slot", slot |-> i, filename |-> filename,
                             mark |-> "fail"])
                      /\ errors' = Append(errors,
                            [filename |-> filename,
                             error |-> IF Get(result, "error") # NoneV
                                       THEN Get(result, "error")[1]
                                       ELSE "Unknown error"])
                      /\ UNCHANGED <<fs, meta, meta_log>>
         ELSE UNCHANGED <<console, errors, fs, meta, meta_log>>
    /\ LET c == CountSlot(DisplayOrder(args.variations)[fin_i], results,
                          successful, failed)
       IN successful' = c[1] /\ failed' = c[2]
    /\ fin_i' = fin_i + 1
    /\ pc' = IF fin_i = args.variations THEN "join" ELSE "finalize"
    /\ UNCHANGED <<args, provider_name, provider, cost_per_image, fs0, next_i,
                   work_queue, num_threads, idle_sem, shutdown_flag, task, future,
                   results, rate_limited, actual_cost, exit_code, calls,
                   out_of_order, futures, call_vars,
                   main_vars>>

\* generator.py:289-318, one turn of the display loop.
FinalizeSlot ==
    /\ pc = "finalize"
    /\ LET i == DisplayOrder(args.variations)[fin_i] IN
         IF i \in DOMAIN results
         THEN LET filename == results[i][1]
                  result == results[i][2]
              IN IF result["status"] = Some("success")
                 THEN /\ console' = Append(console,
                            [kind |-> "slot", slot |-> i, filename |-> filename,
                             mark |-> "ok"])
                      /\ fs' = fs \cup {JsonName(filename)}
                      /\ meta' = (JsonName(filename) :>
                                    SidecarFor(args.prompt, provider[1], result))
                                 @@ meta
                      /\ meta_log' = Append(meta_log, i)
                      /\ UNCHANGED errors
                 ELSE /\ console' = Append(console,
                            [kind |-> "slot", slot |-> i, filename |-> filename,
                             mark |-> "fail"])
                      /\ errors' = Append(errors,
                            [filename |-> filename,
                             error |-> IF Get(result, "error") # NoneV
                                       THEN Get(result, "error")[1]
                                       ELSE "Unknown error"])
                      /\ UNCHANGED <<fs, meta, meta_log>>
         ELSE UNCHANGED <<console, errors, fs, meta, meta_log>>
    /\ LET c == CountSlot(DisplayOrder(args.variations)[fin_i], results,
                          successful, failed)
       IN successful' = c[1] /\ failed' = c[2]
    /\ fin_i' = fin_i + 1
    /\ pc' = IF fin_i = args.variations THEN "join" ELSE "finalize"
    /\ UNCHANGED <<args, provider_name, provider, cost_per_image, fs0, next_i,
                   work_queue, num_threads, idle_sem, shutdown_flag, task, future,
                   results, rate_limited, actual_cost, exit_code, calls,
                   out_of_order, futures, call_vars,
                   main_vars>>

\* Mutant: the with block ends without waiting for the workers.
WorkersDone_NoWait == TRUE

\* Mutant: the join also waits for every result to be collected.
WorkersDone_AllCollected ==
    work_queue = <<>> /\ Running = {} /\ DOMAIN results = Slots

\* Every worker thread has run out of work items and left.
WorkersDone == work_queue = <<>> /\ Running = {}

\* generator.py:255, the end of the with block: executor.shutdown(wait=True)
\* joins the worker threads.
Join ==
    /\ pc = "join"
    /\ WorkersDone
    /\ shutdown_flag' = TRUE
    /\ pc' = "summary"
    /\ UNCHANGED <<args, provider_name, provider, cost_per_image, fs0, fs, meta,
                   next_i, work_queue, num_threads, idle_sem, task, future,
                   results, rate_limited, fin_i, successful, failed, errors,
                   console, meta_log, actual_cost, exit_code, calls, out_of_order, futures, call_vars,
                   main_vars>>

\* Mutant: the costs the results report, added up.
ActualCost_SumReported(per_image, n_success, n_failed, collected) ==
    LET ok == {i \in DOMAIN collected : collected[i][2]["status"] = Some("success")}
    IN SumOver(ok, [i \in ok |-> Get(collected[i][2], "cost_usd")[1]])

\* generator.py:321
ActualCost(per_image, n_success, n_failed, collected) == per_image * n_success

\* generator.py:320-336
Summary ==
    /\ pc = "summary"
    /\ actual_cost' = ActualCost(cost_per_image, successful, failed, results)
    /\ console' = Append(console,
           [kind |-> "summary", successful |-> successful,
            total |-> successful + failed, failed |-> failed,
            errors |-> IF failed > 0 THEN errors ELSE <<>>,
            actual_cost |-> actual_cost'])
    /\ pc' = "returned"
    /\ UNCHANGED <<args, provider_name, provider, cost_per_image, fs0, fs, meta,
                   next_i, work_queue, num_threads, idle_sem, shutdown_flag, task,
                   future, results, rate_limited, fin_i, successful, failed,
                   errors, meta_log, exit_code, calls,
                   out_of_order, futures, call_vars,
                   main_vars>>

\* Mutant: the exit code is 1 when a slot failed or the batch was cut short.
MainReturn_FailureCode ==
    /\ pc = "returned"
    /\ pc' = "exit"
    /\ exit_code' = IF failed > 0 \/ rate_limited THEN Some(1) ELSE Some(0)
    /\ UNCHANGED <<args, provider_name, provider, cost_per_image, fs0, fs, meta,
                   next_i, work_queue, num_threads, idle_sem, shutdown_flag, task,
                   future, results, rate_limited, fin_i, successful, failed,
                   errors, console, meta_log, actual_cost, calls,
                   out_of_order, futures, call_vars,
                   main_vars>>

\* cli.py:306-324: generate_from_prompt returned, main returns, exit code 0.
MainReturn ==
    /\ pc = "returned"
    /\ pc' = "exit"
    /\ exit_code' = Some(0)
    /\ UNCHANGED <<args, provider_name, provider, cost_per_image, fs0, fs, meta,
                   next_i, work_queue, num_threads, idle_sem, shutdown_flag, task,
                   future, results, rate_limited, fin_i, successful, failed,
                   errors, console, meta_log, actual_cost, calls,
                   out_of_order, futures, call_vars,
                   main_vars>>

\* cli.py:322-324: generate_from_prompt raised, main prints and exits with 1.
MainExcept ==
    /\ pc = "raised"
    /\ pc' = "exit"
    /\ exit_code' = Some(1)
    /\ console' = Append(console, [kind |-> "error"])
    /\ UNCHANGED <<args, provider_name, provider, cost_per_image, fs0, fs, meta,
                   next_i, work_queue, num_threads, idle_sem, shutdown_flag, task,
                   future, results, rate_limited, fin_i, successful, failed,
                   errors, meta_log, actual_cost, calls,
                   out_of_order, futures, call_vars,
                   main_vars>>

\* The image cannot be opened for writing when output_dir is no directory.
Finish ==
    \E i \in Running :
        \E o \in AdapterOutcomes(provider[1], futures[i], args.prompt,
                                 args.aspect_ratio, args.quality) :
            /\ (o.kind = "return" /\ Get(o.value, "status") = Some("success"))
                  => IsDirectory(args.output_dir)
            /\ WorkerFinish(i, o)

CollectAny == \E i \in Slots : Collect(i)

Next ==
    \/ CheckCollisions
    \/ ResolveProvider
    \/ Estimate
    \/ Submit
    \/ WorkerStart
    \/ Finish
    \/ CollectAny
    \/ FinalizeSlot
    \/ Join
    \/ Summary
    \/ MainReturn
    \/ MainExcept

Spec == Init /\ [][Next]_vars

\* The main thread and each worker thread keep running while they can, and
\* every generate_image call returns.
MainThread ==
    \/ CheckCollisions \/ ResolveProvider \/ Estimate \/ Submit \/ CollectAny
    \/ FinalizeSlot \/ Join \/ Summary \/ MainReturn \/ MainExcept

\* Whether a run ends does not depend on the prices: the fair runs take the
\* two adapters with their default options, writing to a directory.
FairConfigs ==
    {c \in Configs : c.model = NoneV /\ c.aspect_ratio = NoneV
                     /\ c.provider_name \in KnownProviders
                     /\ IsDirectory(c.output_dir)}

FairInit ==
    \E c \in FairConfigs, n \in 1 .. MaxVariations, dry \in BOOLEAN, dir \in Directories :
        RunInit(c, n, dry, dir)

FairSpec ==
    /\ FairInit /\ [][Next]_vars
    /\ WF_vars(MainThread) /\ WF_vars(WorkerStart) /\ WF_vars(Finish)

-----------------------------------------------------------------------------
(* Batches larger than the pool: generate_from_prompt called with any number *)
(* of variations, one adapter, an empty directory.                           *)

MaxPoolVariations == 5

PoolInit ==
    \E c \in {k \in FairConfigs : k.provider_name = "openai"},
       n \in 1 .. MaxPoolVariations :
        RunInit(c, n, FALSE, {})

\* A call ends with an image, or rate-limited.
PoolFinish ==
    \E i \in Running :
        \E d \in { OpenAISuccess(futures[i], args.prompt, args.aspect_ratio,
                                  args.quality, "plain"),
                    RateLimitFailure } :
            WorkerFinish(i, Return(d))

PoolNext ==
    \/ CheckCollisions
    \/ ResolveProvider
    \/ Estimate
    \/ Submit
    \/ WorkerStart
    \/ PoolFinish
    \/ CollectAny
    \/ FinalizeSlot
    \/ Join
    \/ Summary
    \/ MainReturn

PoolSpec == PoolInit /\ [][PoolNext]_vars

-----------------------------------------------------------------------------
(* generate_from_prompt called directly: any model override with any        *)
(* provider_name and api_key, over a directory that may hold a sidecar.     *)

MaxDirectVariations == 2

GptModel == <<"g","p","t","-","4">>
UnknownModel == <<"f","l","u","x","-","1">>

\* The model argument: none, empty, or a name of either family or of none.
Models == {NoneV, Some(""), Some(GeminiModel), Some(GptModel), Some(UnknownModel)}

DirectConfigs ==
    [provider_name : KnownProviders,
     api_key : {get_api_key_for_provider(p) : p \in KnownProviders},
     model : Models, quality : {NoneV}, resolution : {NoneV},
     aspect_ratio : {NoneV}, output_dir : {OutDir}]

\* The directories: the second image, the first image's sidecar, both or none.
DirectDirectories == SUBSET {ImageName(2), JsonName(ImageName(1))}

DirectInit ==
    \E c \in DirectConfigs, n \in 1 .. MaxDirectVariations, dir \in DirectDirectories :
        RunInit(c, n, FALSE, dir)

DirectSpec == DirectInit /\ [][Next]_vars

-----------------------------------------------------------------------------
(* save_metadata_file on its own: one call with arguments from small sets *)

OptionalStrings == {NoneV, Some(""), Some("x")}

MetaKwargs ==
    {EmptyDict}
    \cup { ("model_version" :> a) @@ ("prompt_tokens" :> b) :
             a \in OptionalStrings, b \in {NoneV, Some(0), Some(12)} }

MetaArgs ==
    [ filename : {ImageName(1)},
      original_prompt : {Prompt},
      provider : {"openai"},
      model : {get_generate_model("openai")},
      revised_prompt : {NoneV, Some(Prompt), Some(<<"revised">>), Some(<<>>)},
      created : OptionalStrings,
      quality : {NoneV, Some("high")},
      size : {NoneV, Some("")},
      cost_usd : {NoneV, Some(0), Some(133000)},
      kwargs : MetaKwargs ]

MetaInit ==
    /\ args \in MetaArgs
    /\ provider_name = "openai"
    /\ provider = NoneV
    /\ cost_per_image = 0
    /\ fs0 = {}
    /\ fs = {}
    /\ meta = EmptyDict
    /\ pc = "meta_call"
    /\ next_i = 1
    /\ work_queue = <<>>
    /\ num_threads = 0
    /\ idle_sem = 0
    /\ shutdown_flag = FALSE
    /\ task = <<>>
    /\ future = <<>>
    /\ results = EmptyDict
    /\ rate_limited = FALSE
    /\ fin_i = 1
    /\ successful = 0
    /\ failed = 0
    /\ errors = <<>>
    /\ console = <<>>
    /\ meta_log = <<>>
    /\ actual_cost = 0
    /\ exit_code = NoneV
    /\ calls = 0
    /\ out_of_order = FALSE
    /\ futures = EmptyDict
    /\ CallIdle
    /\ MainIdle

\* generator.py:43-74
SaveMetadata ==
    /\ pc = "meta_call"
    /\ fs' = fs \cup {JsonName(args.filename)}
    /\ meta' = (JsonName(args.filename) :>
                  MetadataRecord(args.original_prompt, args.provider, args.model,
                                 args.revised_prompt, args.created, args.quality,
                                 args.size, args.cost_usd, args.kwargs))
               @@ meta
    /\ pc' = "meta_done"
    /\ UNCHANGED <<args, provider_name, provider, cost_per_image, fs0, next_i,
                   work_queue, num_threads, idle_sem, shutdown_flag, task, future,
                   results, rate_limited, fin_i, successful, failed, errors,
                   console, meta_log, actual_cost, exit_code, calls, out_of_order, futures, call_vars,
                   main_vars>>

MetaNext == SaveMetadata

MetaSpec == MetaInit /\ [][MetaNext]_vars

-----------------------------------------------------------------------------
(* main(): the command line up to the call of generate_from_prompt *)

ASPECT_RATIO_WHITELIST == {"1:1", "16:9", "9:16", "4:3", "3:4"}
RESOLUTION_WHITELIST == {"1K", "2K", "4K"}
QUALITY_LEVELS == {"low", "medium", "high"}
INPUT_FIDELITY_LEVELS == {"high", "low"}

\* "if args.x and args.x not in whitelist"
Rejected(v, whitelist) == TruthyStr(v) /\ v[1] \notin whitelist

\* validate_arguments(args): the ValueError raised, None when it returns.
validate_arguments(a) ==
    IF Rejected(a.aspect_ratio, ASPECT_RATIO_WHITELIST)
    THEN Some("Invalid aspect ratio")
    ELSE IF Rejected(a.quality, QUALITY_LEVELS)
    THEN Some("Invalid quality level")
    ELSE IF Rejected(a.resolution, RESOLUTION_WHITELIST)
    THEN Some("Invalid resolution")
    ELSE IF a.variations < 1 \/ a.variations > 4
    THEN Some("Variations must be between 1 and 4")
    ELSE IF ~TruthyStr(a.prompt) /\ ~TruthyStr(a.file)
    THEN Some("Must provide either --prompt or --file")
    ELSE IF TruthyStr(a.prompt) /\ TruthyStr(a.file)
    THEN Some("Cannot specify both --prompt and --file")
    ELSE IF a.reference_images # <<>> /\ TruthyStr(a.references)
    THEN Some("Cannot specify both positional reference images and --references file")
    ELSE IF Rejected(a.input_fidelity, INPUT_FIDELITY_LEVELS)
    THEN Some("Invalid input_fidelity")
    ELSE NoneV

\* A result: the value returned, or the ValueError raised.
Ok(v) == [ok |-> TRUE, value |-> v]
ValueError(text) == [ok |-> FALSE, value |-> text]

\* load_prompt(prompt_text, prompt_file); found is what is at prompt_file:
\* nothing, a file that is empty once stripped, or a text.
load_prompt(prompt_text, prompt_file, found) ==
    IF TruthyStr(prompt_text) THEN Ok(prompt_text[1])
    ELSE IF TruthyStr(prompt_file)
    THEN IF found = "missing" THEN ValueError("Prompt file not found")
         ELSE IF found = "empty" THEN ValueError("Prompt file is empty")
         ELSE Ok("a dog")
    ELSE ValueError("Must provide either --prompt or --file")

\* load_references(reference_paths, reference_file)
load_references(reference_paths, reference_file, found) ==
    IF reference_paths # <<>> /\ TruthyStr(reference_file)
    THEN ValueError("Cannot specify both positional reference images and --references file")
    ELSE IF TruthyStr(reference_file)
    THEN IF found = "missing" THEN ValueError("References file not found")
         ELSE IF found = "empty" THEN ValueError("References file is empty")
         ELSE Ok(<<"ref2.jpg">>)
    ELSE Ok(reference_paths)

\* What is typed on the command line, as argparse stores it.
CliInputs ==
    [prompt : {NoneV, Some(""), Some("a cat")},
     file : {NoneV, Some("prompt.txt")},
     reference_images : {<<>>, <<"ref1.jpg">>},
     references : {NoneV, Some("refs.txt")},
     output : {OutDir},
     variations : {0, 1, 2, 5},
     model : {NoneV},
     quality : {NoneV, Some(""), Some("ultra")},
     resolution : {NoneV, Some("8K")},
     aspect_ratio : {NoneV, Some("2:1")},
     input_fidelity : {NoneV, Some("original")},
     dry_run : {FALSE}]

\* What main() finds on the machine: the two files, and whether an API key is
\* configured for the provider.
CliFiles ==
    [prompt_file : {"missing", "empty", "text"},
     references_file : {"missing", "empty", "paths"},
     api_key : BOOLEAN]

\* The run's variables other than pc, console and exit_code.
cli_frame ==
    <<args, provider_name, provider, cost_per_image, fs0, fs, meta, next_i,
      work_queue, num_threads, idle_sem, shutdown_flag, task, future, results,
      rate_limited, fin_i, successful, failed, errors, meta_log, actual_cost,
      calls, out_of_order, futures>>

CliInit ==
    /\ cli_args \in {Some(a) : a \in CliInputs}
    /\ cli_files \in {Some(f) : f \in CliFiles}
    /\ cli_locals = [prompt |-> NoneV, references |-> NoneV, provider_name |-> NoneV]
    /\ args = NoneV
    /\ provider_name = ""
    /\ fs0 \in {{}, {ImageName(1)}}
    /\ fs = fs0
    /\ pc = "argparse"
    /\ task = <<>>
    /\ future = <<>>
    /\ RunFresh

\* print(f"Error: ...") and the exit with the given code.
ExitWith(code) ==
    /\ console' = Append(console, [kind |-> "error"])
    /\ exit_code' = Some(code)
    /\ pc' = "exit"

Proceed(to) == pc' = to /\ UNCHANGED <<console, exit_code>>

\* cli.py:213-273: parser.parse_args(); -p and -f are in a mutually exclusive
\* group, and parser.error exits with 2.
ParseArgs ==
    /\ pc = "argparse"
    /\ IF cli_args[1].prompt # NoneV /\ cli_args[1].file # NoneV
       THEN ExitWith(2)
       ELSE Proceed("validate")
    /\ UNCHANGED <<cli_frame, call_vars, main_vars>>

\* cli.py:276-283
ValidateArguments ==
    /\ pc = "validate"
    /\ IF validate_arguments(cli_args[1]) # NoneV
       THEN ExitWith(1)
       ELSE Proceed("load_prompt")
    /\ UNCHANGED <<cli_frame, call_vars, main_vars>>

LoadPrompt ==
    /\ pc = "load_prompt"
    /\ LET r == load_prompt(cli_args[1].prompt, cli_args[1].file,
                            cli_files[1].prompt_file)
       IN IF r.ok
          THEN /\ Proceed("load_references")
               /\ cli_locals' = [cli_locals EXCEPT !.prompt = Some(r.value)]
          ELSE ExitWith(1) /\ UNCHANGED cli_locals
    /\ UNCHANGED <<cli_frame, call_vars, cli_args, cli_files>>

LoadReferences ==
    /\ pc = "load_references"
    /\ LET r == load_references(cli_args[1].reference_images,
                                cli_args[1].references,
                                cli_files[1].references_file)
       IN IF r.ok
          THEN /\ Proceed("provider")
               /\ cli_locals' = [cli_locals EXCEPT !.references = Some(r.value)]
          ELSE ExitWith(1) /\ UNCHANGED cli_locals
    /\ UNCHANGED <<cli_frame, call_vars, cli_args, cli_files>>

\* cli.py:285-299: the provider, and its API key; get_api_key_for_provider
\* raises ValueError when none is configured.
DetermineProvider ==
    /\ pc = "provider"
    /\ LET name == IF TruthyStr(cli_args[1].model)
                   THEN infer_provider_from_model(cli_args[1].model[1])
                   ELSE DEFAULT_PROVIDER
       IN IF cli_files[1].api_key
          THEN /\ Proceed("call")
               /\ cli_locals' = [cli_locals EXCEPT !.provider_name = Some(name)]
          ELSE ExitWith(1) /\ UNCHANGED cli_locals
    /\ UNCHANGED <<cli_frame, call_vars, cli_args, cli_files>>

\* cli.py:301-321: the directory is made and generate_from_prompt is called.
CallGenerate ==
    /\ pc = "call"
    /\ args' = [variations |-> cli_args[1].variations,
                dry_run |-> cli_args[1].dry_run,
                prompt |-> <<cli_locals.prompt[1]>>,
                output_dir |-> cli_args[1].output,
                api_key |-> get_api_key_for_provider(cli_locals.provider_name[1]),
                model |-> cli_args[1].model, quality |-> cli_args[1].quality,
                resolution |-> cli_args[1].resolution,
                aspect_ratio |-> cli_args[1].aspect_ratio]
    /\ provider_name' = cli_locals.provider_name[1]
    /\ task' = [i \in 1 .. cli_args[1].variations |-> "unsubmitted"]
    /\ future' = [i \in 1 .. cli_args[1].variations |-> NoneV]
    /\ pc' = "start"
    /\ UNCHANGED <<provider, cost_per_image, fs0, fs, meta, next_i, work_queue,
                   num_threads, idle_sem, shutdown_flag, results, rate_limited,
                   fin_i, successful, failed, errors, console, meta_log,
                   actual_cost, exit_code, calls, out_of_order, futures,
                   call_vars, main_vars>>

CliNext ==
    \/ ParseArgs
    \/ ValidateArguments
    \/ LoadPrompt
    \/ LoadReferences
    \/ DetermineProvider
    \/ CallGenerate
    \/ Next

CliSpec == CliInit /\ [][CliNext]_vars

-----------------------------------------------------------------------------
(* One provider.generate_image call, statement by statement *)

max_retries == 3
retry_delay == 5
MaxReferenceImages == 14

\* str(e): a text is the sequence of its pieces; "x" in text looks for a piece.
Contains(text, piece) == \E k \in DOMAIN text : text[k] = piece

\* Reference images: a path (its pieces) and what is found there.
Ref(path, found) == [path |-> path, found |-> found]
GoodRef == Ref(<<"ref1", ".jpg">>, "image")
MissingRef == Ref(<<"gone", ".jpg">>, "missing")
CorruptRef == Ref(<<"scan_", "429", ".png">>, "not an image")

ReferenceLists ==
    { <<>>, <<GoodRef>>, <<GoodRef, MissingRef>>, <<CorruptRef>>,
      [k \in 1 .. MaxReferenceImages + 1 |-> GoodRef] }

\* What the vendor's API does with one request: answer with image data, answer
\* without, or make the client library raise.
Data(r) ==
    [kind |-> "data", resp |-> r, type |-> "", text |-> <<>>, rate_limit |-> FALSE]
NoData ==
    [kind |-> "no data", resp |-> "", type |-> "", text |-> <<>>, rate_limit |-> FALSE]
Raised(type, text, rate_limit) ==
    [kind |-> "raise", resp |-> "", type |-> type, text |-> text,
     rate_limit |-> rate_limit]

\* rate_limit: the remote service answered with its rate-limit response
\* (HTTP 429).
VendorAnswers(p) ==
    {Data(r) : r \in Responses} \cup {NoData} \cup
    IF p = "openai"
    THEN { Raised("RateLimitError", <<"Error code: ", "429", " - rate limit">>, TRUE),
           Raised("APIError", <<"Error code: 403", " - forbidden">>, FALSE),
           Raised("APIError", <<"Error code: 500", " - server error">>, FALSE),
           Raised("Exception", <<"Connection reset">>, FALSE) }
    ELSE { Raised("ClientError", <<"429", " RESOURCE_EXHAUSTED">>, TRUE),
           Raised("ServerError", <<"500", " INTERNAL">>, FALSE),
           Raised("ServerError",
                  <<"503", " UNAVAILABLE. retry in ", "429", " ms">>, FALSE) }

Requests ==
    [provider : KnownProviders, filename : {ImageName(1)},
     output_dir : {OutDir, OutFile},
     input_fidelity : {NoneV, Some("high"), Some("original")},
     reference_images : ReferenceLists]

\* The call's locals other than the output directory and the console.
run_rest ==
    <<args, provider_name, provider, cost_per_image, fs0, meta, pc, next_i,
      work_queue, num_threads, idle_sem, shutdown_flag, task, future, results,
      rate_limited, fin_i, successful, failed, errors, meta_log, actual_cost,
      exit_code, calls, out_of_order, futures>>

AdapterInit ==
    /\ request \in {Some(r) : r \in Requests}
    /\ apc = "enter" /\ attempt = 0 /\ image_files = <<>>
    /\ api_calls = 0 /\ response = NoneV /\ ret = NoneV
    /\ fs0 \in {{}, {ImageName(2)}}
    /\ fs = (IF IsDirectory(request[1].output_dir) THEN fs0 ELSE {})
    /\ fs0 = fs
    /\ console = <<>>
    /\ args = NoneV /\ provider_name = request[1].provider /\ provider = NoneV
    /\ cost_per_image = 0 /\ meta = EmptyDict /\ pc = "generate_image"
    /\ next_i = 1 /\ work_queue = <<>> /\ num_threads = 0 /\ idle_sem = 0
    /\ shutdown_flag = FALSE /\ task = <<>> /\ future = <<>>
    /\ results = EmptyDict /\ rate_limited = FALSE /\ fin_i = 1
    /\ successful = 0 /\ failed = 0 /\ errors = <<>> /\ meta_log = <<>>
    /\ actual_cost = 0 /\ exit_code = NoneV /\ calls = 0
    /\ out_of_order = FALSE /\ futures = EmptyDict
    /\ MainIdle

\* The call returns d.
Returns(d) == ret' = Some(d) /\ apc' = "done"

\* Mutant: the check of input_fidelity is missing.
FidelityValid_Unchecked(input_fidelity) == TRUE

\* openai_provider.py:80
FidelityValid(input_fidelity) ==
    input_fidelity = NoneV \/ input_fidelity[1] \in {"high", "low"}

\* openai_provider.py:77-110: up to the first turn of the retry loop.
OpenAIValidate ==
    /\ apc = "enter" /\ request[1].provider = "openai"
    /\ IF ~FidelityValid(request[1].input_fidelity)
       THEN /\ Returns(Failure(<<"Invalid input_fidelity: ",
                                 request[1].input_fidelity[1],
                                 ". Valid values: high, low">>))
            /\ UNCHANGED attempt
       ELSE /\ attempt' = 1 /\ apc' = "references" /\ UNCHANGED ret
    /\ UNCHANGED <<run_rest, fs, console, request, image_files, api_calls,
                   response, main_vars>>

\* google_provider.py:77-83
GoogleValidate ==
    /\ apc = "enter" /\ request[1].provider = "google"
    /\ IF Len(request[1].reference_images) > MaxReferenceImages
       THEN /\ Returns(Failure(<<"Too many reference images: ",
                                 ToString(Len(request[1].reference_images)),
                                 ". Max 14 allowed">>))
            /\ UNCHANGED attempt
       ELSE /\ apc' = "references" /\ UNCHANGED <<ret, attempt>>
    /\ UNCHANGED <<run_rest, fs, console, request, image_files, api_calls,
                   response, main_vars>>

\* The first reference, in order, for which found is one of bad; 0 if none.
FirstRef(refs, bad) ==
    IF \E k \in DOMAIN refs : refs[k].found \in bad
    THEN CHOOSE k \in DOMAIN refs :
            /\ refs[k].found \in bad
            /\ \A j \in 1 .. (k - 1) : refs[j].found \notin bad
    ELSE 0

\* openai_provider.py:122-147 up to the request: open(ref_path, "rb") for each
\* reference; a missing one raises FileNotFoundError, the finally clause
\* closes what was opened, and the call returns.
OpenAIOpenReferences ==
    /\ apc = "references" /\ request[1].provider = "openai"
    /\ LET refs == request[1].reference_images
           k == FirstRef(refs, {"missing"})
       IN IF k = 0
          THEN /\ image_files' = image_files \o [j \in DOMAIN refs |-> "open"]
               /\ apc' = "call" /\ UNCHANGED ret
          ELSE /\ image_files' = image_files \o [j \in 1 .. (k - 1) |-> "closed"]
               /\ Returns(Failure(<<"Reference image not found: ">>
                                   \o refs[k].path))
    /\ UNCHANGED <<run_rest, fs, console, request, attempt, api_calls, response,
                   main_vars>>

\* The Google adapter never closes the images it opened with Image.open: when
\* the call returns, each is still open unless the interpreter has already
\* finalized it.
Released(files) == {files, [j \in DOMAIN files |-> "closed"]}

\* google_provider.py:163-171: what the except clause returns for str(e).
GoogleExcept(text) ==
    IF Contains(text, "429") THEN RateLimitFailure ELSE Failure(text)

\* google_provider.py:98-108: Image.open(ref_path) for each reference; a missing
\* one raises FileNotFoundError, a file that is no image raises
\* UnidentifiedImageError, which the outer except clause takes.
GoogleOpenReferences ==
    /\ apc = "references" /\ request[1].provider = "google"
    /\ LET refs == request[1].reference_images
           k == FirstRef(refs, {"missing", "not an image"})
       IN IF k = 0
          THEN /\ image_files' = image_files \o [j \in DOMAIN refs |-> "open"]
               /\ apc' = "call" /\ UNCHANGED ret
          ELSE /\ image_files' \in
                    Released(image_files \o [j \in 1 .. (k - 1) |-> "open"])
               /\ IF refs[k].found = "missing"
                  THEN Returns(Failure(<<"Reference image not found: ">>
                                       \o refs[k].path))
                  ELSE Returns(GoogleExcept(<<"cannot identify image file ">>
                                            \o refs[k].path))
    /\ UNCHANGED <<run_rest, fs, console, request, attempt, api_calls, response,
                   main_vars>>

\* openai_provider.py:137-141, 150 and google_provider.py:110-121: the request
\* to the vendor. The OpenAI adapter's finally clause closes the reference
\* files whatever the request did; the Google adapter closes nothing.
CallVendor(answer) ==
    /\ apc = "call"
    /\ api_calls' = api_calls + 1
    /\ response' = Some(answer)
    /\ image_files' = IF request[1].provider = "openai"
                      THEN [j \in DOMAIN image_files |-> "closed"]
                      ELSE image_files
    /\ apc' = "answered"
    /\ UNCHANGED <<run_rest, fs, console, request, attempt, ret, main_vars>>

\* open(image_path, "wb") where output_dir is no directory.
NoSuchDirectory == <<"[Errno 2] No such file or directory: ", "images/sunset.png/">>

\* Mutant: the image file is written before the response is looked at.
WrittenFiles_BeforeCheck(dir, filename, answer) == dir \cup {filename}

\* openai_provider.py:153-159, google_provider.py:124-131: the directory after
\* the answer has been handled: the image is written when there is image data.
WrittenFiles(dir, filename, answer) ==
    IF answer.kind = "data" THEN dir \cup {filename} ELSE dir

\* Mutant: every APIError is tried again.
ShouldRetry_AnyAPIError(r, n) ==
    r.kind = "raise" /\ r.type = "APIError" /\ n < max_retries

\* openai_provider.py:191-198: the except APIError clause goes on to the next
\* attempt (n is the attempt that failed).
ShouldRetry(r, n) ==
    /\ r.kind = "raise" /\ r.type = "APIError"
    /\ \/ Contains(r.text, "Error code: 403")
       \/ Contains(r.text, "status_code=403")
    /\ n < max_retries

\* openai_provider.py:152-202: the answer is handled; a 403 is tried again
\* while attempt < max_retries, after time.sleep(retry_delay).
OpenAIHandle ==
    /\ apc = "answered" /\ request[1].provider = "openai"
    /\ LET r == response[1]
           retry == ShouldRetry(r, attempt)
       IN /\ fs' = IF r.kind # "raise" /\ IsDirectory(request[1].output_dir)
                   THEN WrittenFiles(fs, request[1].filename, r) ELSE fs
          /\ IF retry
             THEN /\ console' = Append(console,
                         [kind |-> "retry", attempt |-> attempt,
                          slept |-> retry_delay])
                  /\ attempt' = attempt + 1
                  /\ apc' = "references"
                  /\ UNCHANGED ret
             ELSE /\ UNCHANGED <<console, attempt>>
                  /\ Returns(
                       IF r.kind = "data"
                       THEN IF IsDirectory(request[1].output_dir)
                            THEN OpenAISuccess(request[1].filename, Prompt, NoneV,
                                               NoneV, r.resp)
                            ELSE Failure(NoSuchDirectory)
                       ELSE IF r.kind = "no data"
                       THEN Failure(<<"No image data in response">>)
                       ELSE IF r.type = "RateLimitError" THEN RateLimitFailure
                       ELSE Failure(r.text))
    /\ UNCHANGED <<run_rest, request, image_files, api_calls, response, main_vars>>

\* google_provider.py:123-171
GoogleHandle ==
    /\ apc = "answered" /\ request[1].provider = "google"
    /\ LET r == response[1]
       IN /\ fs' = IF r.kind # "raise" /\ IsDirectory(request[1].output_dir)
                   THEN WrittenFiles(fs, request[1].filename, r) ELSE fs
          /\ Returns(
               IF r.kind = "data"
               THEN IF IsDirectory(request[1].output_dir)
                    THEN GoogleSuccess(request[1].filename, r.resp)
                    ELSE GoogleExcept(NoSuchDirectory)
               ELSE IF r.kind = "no data"
               THEN Failure(<<"No image data in response">>)
               ELSE GoogleExcept(r.text))
          /\ image_files' \in Released(image_files)
    /\ UNCHANGED <<run_rest, console, request, attempt, api_calls, response,
                   main_vars>>

Call == \E answer \in VendorAnswers(request[1].provider) : CallVendor(answer)

AdapterNext ==
    \/ OpenAIValidate
    \/ GoogleValidate
    \/ OpenAIOpenReferences
    \/ GoogleOpenReferences
    \/ Call
    \/ OpenAIHandle
    \/ GoogleHandle

AdapterSpec == AdapterInit /\ [][AdapterNext]_vars

-----------------------------------------------------------------------------
(* Properties *)

Targets == {ImageName(i) : i \in Slots}
Collided == fs0 \cap Targets # {}

SlotLines == SelectSeq(console, LAMBDA e : e.kind = "slot")
Ascending(seq) == \A j, k \in 1 .. Len(seq) : j < k => seq[j] < seq[k]
ReportedSlots == {SlotLines[k].slot : k \in 1 .. Len(SlotLines)}
CollectedRateLimited == {i \in DOMAIN results : IsRateLimited(results[i][2])}
Succeeded(i) == future[i] # NoneV /\ Get(future[i][1], "status") = Some("success")

\* The batch was dispatched and its collection loop / display loop has ended.
Dispatched == next_i > args.variations
CollectionEnded ==
    Dispatched /\ pc \in {"finalize", "join", "summary", "returned", "exit"}
Finalized == Dispatched /\ pc \in {"join", "summary", "returned", "exit"}
\* generate_from_prompt has printed its summary and returned.
Done == Dispatched /\ pc \in {"returned", "exit"}

\* C1: when a target file of the batch exists as generate_from_prompt is
\* called, the run raises the collision error before any generate_image call:
\* no call is ever started, no task is submitted, the directory stays as it was
\* (no image, no sidecar), and the process ends with exit code 1.
C1_CollisionAborts ==
    Collided =>
        /\ calls = 0
        /\ \A i \in Slots : task[i] = "unsubmitted"
        /\ fs = fs0 /\ meta = EmptyDict
        /\ pc \in {"start", "raised", "exit"}
        /\ pc # "start" => \E k \in 1 .. Len(console) : console[k].kind = "collision_error"
        /\ pc = "exit" => exit_code = Some(1)

\* Two variations into a directory that already holds imggen_001.png.
C1_Witness ==
    /\ args.variations = 2 /\ ~args.dry_run /\ fs0 = {ImageName(1)}
    /\ pc = "exit" /\ exit_code = Some(1) /\ calls = 0

C3_StateInv ==
    /\ rate_limited <=> CollectedRateLimited # {}
    /\ Cardinality(CollectedRateLimited) <= 1
    /\ rate_limited => CollectionEnded
    /\ Finalized => ReportedSlots = DOMAIN results

C3_Step == rate_limited => (rate_limited' /\ results' = results)

\* C3: the short-circuit is one-way and fires once: rate_limited is set exactly
\* when a collected result is rate-limited, at most one collected result is,
\* once it is set it stays set and results never changes again, and the display
\* loop reports exactly the slots collected up to then.
C3_ShortCircuitOneWay == [](C3_StateInv) /\ [][C3_Step]_vars

\* A result arrived after the trigger and was left out of the report.
C3_Witness ==
    /\ rate_limited /\ pc = "exit"
    /\ \E i \in Slots : future[i] # NoneV /\ i \notin DOMAIN results
                       /\ i \notin ReportedSlots

\* C4: a failure without the rate-limit mark, an adapter's exception included,
\* does not end the batch: as long as no collected result is rate-limited, the
\* collection loop ends only with every slot collected, and the display loop
\* then reports every slot.
C4_FailureDoesNotAbort ==
    /\ (CollectionEnded /\ CollectedRateLimited = {}) => DOMAIN results = Slots
    /\ (Finalized /\ CollectedRateLimited = {}) => ReportedSlots = Slots
    /\ \A i \in DOMAIN results :
          Get(results[i][2], "error") = Some("exception text")
              => ~IsRateLimited(results[i][2])

\* A returned failure, a raised exception and a success in one batch of three.
C4_Witness ==
    /\ pc = "exit" /\ args.variations = 3 /\ ReportedSlots = Slots
    /\ Get(results[1][2], "error") = Some("No image data in response")
    /\ Get(results[2][2], "error") = Some("exception text")
    /\ Get(results[3][2], "status") = Some("success")
    /\ failed = 2 /\ successful = 1

Failed(i) == future[i] # NoneV /\ Get(future[i][1], "status") = Some("failed")
SummaryLines == SelectSeq(console, LAMBDA e : e.kind = "summary")

\* C5: once the summary is printed, every slot whose generate_image call ended
\* in a failure has its own entry, with its file name, in the summary's list of
\* errors.
C5_EveryFailureListed ==
    Done => /\ Len(SummaryLines) = 1
            /\ \A i \in Slots :
                  Failed(i) =>
                      \E k \in 1 .. Len(SummaryLines[1].errors) :
                          SummaryLines[1].errors[k].filename = ImageName(i)

\* C6: once the batch is done, the sidecar of slot i exists exactly when the
\* generate_image call of slot i succeeded and wrote its image.
C6_SidecarIffSuccess ==
    Done => \A i \in Slots :
                JsonName(ImageName(i)) \in fs
                    <=> (Succeeded(i) /\ ImageName(i) \in fs)

SuccessfulSlots == {i \in DOMAIN results : results[i][2]["status"] = Some("success")}
ReportedCosts == [i \in SuccessfulSlots |-> Get(results[i][2], "cost_usd")[1]]

\* C9: the actual cost shown is the per-image estimate of the pricing table,
\* computed before dispatch from the provider and the requested quality and
\* resolution, times the number of successful slots; the results' own cost_usd
\* and the failed or skipped slots play no part.
C9_ActualCostFromEstimate ==
    /\ pc \in {"submit", "collect", "finalize", "join", "summary"} \/ Done =>
          cost_per_image =
              calculate_image_cost(Some(provider_name), args.quality, args.resolution)
    /\ Done =>
          /\ actual_cost = cost_per_image * Cardinality(SuccessfulSlots)
          /\ SummaryLines[1].actual_cost = actual_cost

\* Two successes and a failure whose reported costs add up to something else.
C9_Witness ==
    /\ Done /\ successful = 2 /\ failed = 1
    /\ cost_per_image > 0
    /\ SumOver(SuccessfulSlots, ReportedCosts) # actual_cost
    /\ actual_cost = cost_per_image * 2

C8_RateLimitNotFatal ==
    /\ rate_limited => (pc # "raised" /\ exit_code # Some(1))
    /\ Done => (Len(SummaryLines) = 1 /\ ReportedSlots = DOMAIN results)

\* C8: a batch that is dispatched (no collision, provider resolved, no dry run)
\* always comes to print its summary and return, given that every call
\* returns; a rate-limit short-circuit is on that same path and never turns
\* into a raised error or the exit code 1.
C8_BatchReachesDone ==
    /\ (pc = "submit" \/ rate_limited) ~> Done
    /\ [](C8_RateLimitNotFatal)

\* A short-circuited batch that returned normally.
C8_Witness ==
    /\ Done /\ rate_limited /\ pc = "exit" /\ exit_code = Some(0)
    /\ DOMAIN results # Slots

OptionalKeys == {"created", "quality", "size", "cost_usd"}
RequiredKeys == {"original_prompt", "provider", "model"}
WrittenRecord == meta[JsonName(args.filename)]

\* C10: the record save_metadata_file writes has exactly the three required
\* keys, each of created, quality, size, cost_usd and each extra key whose value
\* is not None (falsy values included), and revised_prompt when it is not None
\* and differs from original_prompt; every value is stored as given.
C10_MetadataKeys ==
    pc = "meta_done" =>
        /\ DOMAIN WrittenRecord =
              RequiredKeys
              \cup {k \in OptionalKeys : args[k] # NoneV}
              \cup {k \in DOMAIN args.kwargs : args.kwargs[k] # NoneV}
              \cup (IF args.revised_prompt # NoneV
                       /\ args.revised_prompt[1] # args.original_prompt
                    THEN {"revised_prompt"} ELSE {})
        /\ \A k \in RequiredKeys : WrittenRecord[k] = args[k]
        /\ \A k \in OptionalKeys \cap DOMAIN WrittenRecord : WrittenRecord[k] = args[k][1]
        /\ \A k \in DOMAIN args.kwargs \cap DOMAIN WrittenRecord :
              WrittenRecord[k] = args.kwargs[k][1]
        /\ "revised_prompt" \in DOMAIN WrittenRecord =>
              WrittenRecord["revised_prompt"] = args.revised_prompt[1]

\* Falsy values kept, None values and an unchanged revised prompt left out.
C10_Witness ==
    /\ pc = "meta_done"
    /\ args.created = Some("") /\ args.cost_usd = Some(0)
    /\ args.quality = NoneV /\ args.revised_prompt = Some(args.original_prompt)
    /\ args.kwargs # EmptyDict
    /\ args.kwargs["model_version"] = NoneV /\ args.kwargs["prompt_tokens"] = Some(0)
    /\ DOMAIN WrittenRecord =
          RequiredKeys \cup {"created", "cost_usd", "prompt_tokens"}
          \cup (IF args.size # NoneV THEN {"size"} ELSE {})

-----------------------------------------------------------------------------
(* The collision checker's contract *)

\* The slot a target name belongs to.
SlotOf(name) == CHOOSE i \in Slots : name[2] = Pad3(i)

C11_Report ==
    LET r == check_file_collisions(fs, args.variations)
        existing == r[2]
    IN /\ {existing[k] : k \in DOMAIN existing} = fs \cap Targets
       /\ \A j, k \in DOMAIN existing :
              j < k => SlotOf(existing[j]) < SlotOf(existing[k])
       /\ r[1] = (existing # <<>>)

C11_Frame == CheckCollisions => fs' = fs /\ meta' = meta

\* C11: check_file_collisions(output_dir, count) returns (has_collision,
\* existing) where existing is exactly the target names imggen_001.png ..
\* imggen_{count:03d}.png present in output_dir, in ascending slot order, and
\* has_collision is true exactly when existing is not empty; the check leaves
\* the directory as it was.
C11_CollisionCheckContract == [](C11_Report) /\ [][C11_Frame]_vars

\* A directory holding a strict subset of the targets, two of them, has been
\* checked and reported.
C11_Witness ==
    /\ pc = "raised"
    /\ fs0 = {ImageName(1), ImageName(3)}
    /\ args.variations >= 3
    /\ console[Len(console)] =
         [kind |-> "collision_error", files |-> <<ImageName(1), ImageName(3)>>]
    /\ fs = fs0

-----------------------------------------------------------------------------
(* File naming *)

\* The names check_file_collisions tests for existence (generator.py:88-89).
CheckedNames(variations) == {ImageName(i) : i \in 1 .. variations}

\* C13: with a custom basename the target filename is {basename}.png when the
\* total count is 1 and {basename}_{i}.png for slot i when it is larger, the
\* collision checker tests exactly these names, and both fall back to the
\* imggen naming when there is no basename.
C13_BasenameNaming ==
    LET basename == parse_output_path(args.output_dir)[2]
        expected == [i \in Slots |-> generate_filename(basename, i, args.variations)]
    IN /\ \A i \in DOMAIN futures : futures[i] = expected[i]
       /\ pc # "start" => CheckedNames(args.variations) = {expected[i] : i \in Slots}

\* C12: with no custom basename, the filenames dispatched for a batch of count
\* slots are exactly imggen_001.png .. imggen_{count:03d}.png, one per slot
\* index, the indices 1..count without gap or duplicate.
C12_DefaultNames ==
    /\ DOMAIN futures = 1 .. (next_i - 1)
    /\ \A i \in DOMAIN futures :
          i < 10 => futures[i] = << <<"imggen_">>, <<0, 0, i>>, "png">>
    /\ \A i, j \in DOMAIN futures : futures[i] = futures[j] => i = j
    /\ Dispatched => DOMAIN futures = Slots
    /\ \A i \in Slots : task[i] # "unsubmitted" => i \in DOMAIN futures

\* Four slots have been dispatched under the default names, and the fourth
\* call has written its image.
C12_Witness ==
    /\ args.variations = 4
    /\ Dispatched
    /\ parse_output_path(args.output_dir)[2] = NoneV
    /\ futures[4] = << <<"imggen_">>, <<0, 0, 4>>, "png">>
    /\ futures[4] \in fs

-----------------------------------------------------------------------------
(* Dry run *)

\* C14: a dry run skips the dispatch phase: with dry_run=True and no file
\* collision, generate_from_prompt prints the estimate and returns without a
\* single generate_image call, and the output directory stays as it was (no
\* image, no sidecar).
C14_DryRunSkipsDispatch ==
    (args.dry_run /\ ~Collided) =>
        /\ calls = 0
        /\ futures = EmptyDict /\ \A i \in Slots : task[i] = "unsubmitted"
        /\ fs = fs0 /\ meta = EmptyDict
        /\ pc \notin {"submit", "collect", "finalize", "join", "summary"}
        /\ (provider # NoneV /\ pc \in {"returned", "exit"}) =>
              /\ Len(console) = 1
              /\ console[1] = [kind |-> "estimate",
                               cost |-> args.variations
                                 * calculate_image_cost(Some(provider_name),
                                                        args.quality, args.resolution)]
              /\ exit_code \in {NoneV, Some(0)}

\* A dry run over a directory that holds another image has printed its
\* estimate and returned.
C14_Witness ==
    /\ args.dry_run /\ ~Collided /\ fs0 # {}
    /\ pc = "returned"
    /\ console[1].kind = "estimate"

-----------------------------------------------------------------------------
(* The adapters' contract *)

CallDone == apc = "done"
IsSuccess(d) == Get(d, "status") = Some("success")
IsFailure(d) == Get(d, "status") = Some("failed")

\* C15: for each adapter and every generate_image call: if the returned result
\* is a success, exactly one image file was written, at output_dir/filename;
\* if it is a failure, the call wrote no file.
C15_WriteIffSuccess ==
    /\ ~CallDone => fs = fs0
    /\ CallDone =>
          /\ IsSuccess(ret[1]) \/ IsFailure(ret[1])
          /\ IsSuccess(ret[1]) =>
                /\ fs = fs0 \cup {request[1].filename}
                /\ IsDirectory(request[1].output_dir)
                /\ Get(ret[1], "filename") = Some(request[1].filename)
          /\ IsFailure(ret[1]) => fs = fs0

\* The OpenAI adapter has returned a success on its second attempt, next to an
\* image that was there before.
C15_Witness ==
    /\ CallDone /\ IsSuccess(ret[1]) /\ request[1].provider = "openai"
    /\ attempt = 2 /\ api_calls = 2
    /\ fs0 = {ImageName(2)} /\ fs = {ImageName(1), ImageName(2)}

\* C16: an adapter returns a Failure with rate_limited = true if and only if
\* the remote service answered with a rate-limit response; every other failure
\* (other remote errors, validation errors, local errors) is an ordinary
\* Failure without rate_limited = true.
C16_RateLimitedIffRemoteSaysSo ==
    CallDone =>
        (IsRateLimited(ret[1]) <=> (response # NoneV /\ response[1].rate_limit))

\* The inputs an adapter rejects itself.
InvalidFidelity ==
    /\ request[1].provider = "openai"
    /\ request[1].input_fidelity # NoneV
    /\ request[1].input_fidelity[1] \notin {"high", "low"}
TooManyReferences ==
    request[1].provider = "google" /\ Len(request[1].reference_images) > 14
MissingReference == FirstRef(request[1].reference_images, {"missing"})

\* C17: an adapter's input validation failures are returned as Failure results
\* and come before any remote call: an OpenAI input_fidelity outside
\* {high, low}, more than 14 reference images for Google, and a reference path
\* that does not exist (the error names the path) each yield status failed
\* with no request made to the vendor's API.
C17_ValidationBeforeRemote ==
    CallDone =>
        /\ (InvalidFidelity \/ TooManyReferences \/ MissingReference # 0) =>
              IsFailure(ret[1]) /\ api_calls = 0 /\ response = NoneV /\ fs = fs0
        /\ (~InvalidFidelity /\ ~TooManyReferences /\ MissingReference # 0) =>
              Get(ret[1], "error") =
                Some(<<"Reference image not found: ">>
                     \o request[1].reference_images[MissingReference].path)

\* The OpenAI adapter was given a valid fidelity and a list whose second
\* reference is missing: it has opened and closed the first and returned.
C17_Witness ==
    /\ CallDone /\ request[1].provider = "openai"
    /\ request[1].input_fidelity = Some("high")
    /\ MissingReference = 2
    /\ image_files = <<"closed">>
    /\ IsFailure(ret[1]) /\ api_calls = 0

-----------------------------------------------------------------------------
(* The worker pool *)

FinishedCalls == {i \in Slots : task[i] = "finished"}

C19_Step ==
    rate_limited =>
        /\ calls' = calls
        /\ \A i \in Slots : task[i] = "running" => task'[i] \in {"running", "finished"}

\* C19: once the first rate-limited result has been collected, no
\* generate_image call that had not yet started is started afterwards, for
\* every number of variations; the calls in flight are left to run.
C19_NoStartAfterRateLimit == [][C19_Step]_vars

C20_InFlight == Cardinality(Running) <= Min(4, args.variations)

C20_Step ==
    calls' # calls =>
        /\ calls' = calls + 1
        /\ Cardinality(Running) < Min(4, args.variations)
        /\ Cardinality(FinishedCalls) >= calls' - Min(4, args.variations)

\* C20: at every moment of a batch at most min(4, variations) generate_image
\* calls are in flight; when variations exceeds the cap, a remaining request
\* starts only after a running one has finished.
C20_BoundedPool == [](C20_InFlight) /\ [][C20_Step]_vars

\* Five variations: the fifth call has started after one of the first four
\* finished, and four are in flight.
C20_Witness ==
    /\ args.variations = 5
    /\ calls = 5 /\ task[5] = "running"
    /\ Cardinality(Running) = 4 /\ Cardinality(FinishedCalls) = 1

-----------------------------------------------------------------------------
(* The command line *)

\* A value was given for the option and is not one of the listed ones.
OutsideWhitelist(v, whitelist) == v # NoneV /\ v[1] \notin whitelist

\* The command line or the files it names have one of the precondition errors.
PreconditionError ==
    LET a == cli_args[1]
        f == cli_files[1]
    IN \/ a.variations \notin 1 .. 4
       \/ a.prompt = NoneV /\ a.file = NoneV
       \/ a.prompt # NoneV /\ a.file # NoneV
       \/ a.reference_images # <<>> /\ a.references # NoneV
       \/ OutsideWhitelist(a.aspect_ratio, ASPECT_RATIO_WHITELIST)
       \/ OutsideWhitelist(a.quality, QUALITY_LEVELS)
       \/ OutsideWhitelist(a.resolution, RESOLUTION_WHITELIST)
       \/ OutsideWhitelist(a.input_fidelity, INPUT_FIDELITY_LEVELS)
       \/ a.prompt = NoneV /\ a.file # NoneV
            /\ f.prompt_file \in {"missing", "empty"}
       \/ a.references # NoneV /\ f.references_file \in {"missing", "empty"}

\* C18: when the command line has a precondition error (variations outside
\* 1..4, neither or both prompt sources, both kinds of references, an option
\* value outside its whitelist, a missing or empty prompt or references file),
\* no provider call is ever made, no file is written, the process never exits
\* with 0, and when it has exited the error was printed and the code is not 0.
C18_PreconditionErrorsExit ==
    (cli_args # NoneV /\ PreconditionError) =>
        /\ calls = 0
        /\ fs = fs0 /\ meta = EmptyDict
        /\ exit_code # Some(0)
        /\ pc = "exit" =>
            /\ exit_code # NoneV
            /\ console # <<>> /\ console[Len(console)].kind = "error"

-----------------------------------------------------------------------------
(* One result per slot *)

InQueue == {work_queue[k] : k \in DOMAIN work_queue}
StartedCalls == {i \in Slots : task[i] \in {"running", "finished"}}

C21_State ==
    /\ DOMAIN futures = 1 .. (next_i - 1)
    /\ \A i \in Slots : (i \in DOMAIN futures) <=> task[i] # "unsubmitted"
    /\ \A j, k \in DOMAIN work_queue : work_queue[j] = work_queue[k] => j = k
    /\ InQueue = {i \in Slots : task[i] = "queued"}
    /\ calls = Cardinality(StartedCalls)
    /\ \A i \in Slots : future[i] # NoneV <=> task[i] = "finished"
    /\ DOMAIN results \subseteq FinishedCalls
    /\ \A i \in DOMAIN results :
          results[i] = <<ImageName(i), future[i][1]>> /\ futures[i] = ImageName(i)
    /\ pc \in {"collect", "finalize", "join"} => DOMAIN futures = Slots
    /\ pc \in {"summary", "returned", "exit"} => FinishedCalls = Slots

C21_Step ==
    /\ \A i \in Slots :
          task'[i] # task[i] =>
              <<task[i], task'[i]>> \in {<<"unsubmitted", "queued">>,
                                         <<"queued", "running">>,
                                         <<"running", "finished">>}
    /\ \A i \in Slots : future[i] # NoneV => future'[i] = future[i]
    /\ \A i \in DOMAIN futures : i \in DOMAIN futures' /\ futures'[i] = futures[i]
    /\ \A i \in DOMAIN results : i \in DOMAIN results' /\ results'[i] = results[i]
    /\ Cardinality(DOMAIN results') <= Cardinality(DOMAIN results) + 1

\* C21: under every interleaving of the workers, each slot of 1..variations is
\* submitted exactly once (unsubmitted, queued, running, finished, in this
\* order and never back), its call is started once and its future gets one
\* result that never changes; the collected-results map holds at most one
\* entry per slot, stored under the slot's own index with the slot's own
\* filename and result, and an entry once stored is never replaced.
C21_OneResultPerSlot == [](C21_State) /\ [][C21_Step]_vars

\* Five slots, all collected, one of them after a higher slot's result.
C21_Witness ==
    /\ args.variations = 5
    /\ DOMAIN results = Slots
    /\ out_of_order
    /\ \A i \in Slots : results[i][1] = ImageName(i)

-----------------------------------------------------------------------------
(* The model override *)

Inferred == infer_provider_from_model(args.model[1])
Estimates == SelectSeq(console, LAMBDA e : e.kind = "estimate")

\* C29: when a non-empty model is passed to generate_from_prompt and the
\* collision check has passed, the provider is resolved without failing, also
\* for a model name of no known family, which selects the default provider;
\* the adapter and its API key are those of infer_provider_from_model(model)
\* whatever provider_name and api_key were passed, and the per-image cost, the
\* printed estimate and the provider field of every sidecar of the batch are
\* those of the inferred provider.
C29_ModelSelectsProvider ==
    TruthyStr(args.model) =>
        /\ Inferred \in KnownProviders
        /\ (\A p \in GOOGLE_PREFIXES \cup OPENAI_PREFIXES : ~StartsWith(args.model[1], p))
              => Inferred = DEFAULT_PROVIDER
        /\ pc = "raised" => Collided
        /\ pc \notin {"start", "resolve", "raised"} /\ ~Collided =>
              /\ provider = <<Inferred, get_api_key_for_provider(Inferred)>>
              /\ provider_name = Inferred
        /\ pc \notin {"start", "resolve", "raised", "estimate"} /\ ~Collided =>
              /\ cost_per_image =
                    calculate_image_cost(Some(Inferred), args.quality, args.resolution)
              /\ Len(Estimates) = 1
              /\ Estimates[1].cost = args.variations * cost_per_image
        /\ \A j \in DOMAIN meta : meta[j]["provider"] = Inferred

\* A model name of no known family was passed together with the Google
\* adapter's key: the batch ran on the default adapter with that adapter's own
\* key and wrote a sidecar.
C29_Witness ==
    /\ TruthyStr(args.model) /\ args.model[1] = UnknownModel
    /\ args.api_key = get_api_key_for_provider("google")
    /\ provider = <<DEFAULT_PROVIDER, get_api_key_for_provider(DEFAULT_PROVIDER)>>
    /\ pc = "exit" /\ exit_code = Some(0)
    /\ meta # EmptyDict

-----------------------------------------------------------------------------
(* Writes of a batch *)

\* The files the batch has written: each successful call's image, and the
\* sidecars.
WrittenImages == {futures[i] : i \in {k \in DOMAIN futures : Succeeded(k)}}
WrittenSidecars == DOMAIN meta

\* C22: the filenames pre-assigned to the slots of a batch are pairwise
\* distinct, so no two workers write to the same path, and no file the batch
\* writes, image or sidecar, is one that existed when the collision check ran.
C22_NoOverwrite ==
    /\ \A i, j \in DOMAIN futures : i # j => futures[i] # futures[j]
    /\ WrittenImages \cap fs0 = {}
    /\ WrittenSidecars \cap fs0 = {}

-----------------------------------------------------------------------------
(* The collision check covers the dispatch *)

\* Names a directory may hold: the images and sidecars of the slots 0 to
\* variations + 1.
CandidateNames(variations) ==
    LET images == {ImageName(i) : i \in 0 .. variations + 1}
    IN images \cup {JsonName(f) : f \in images}

\* The names the check tests: those whose presence alone makes it report.
TestedNames(variations) ==
    {f \in CandidateNames(variations) : check_file_collisions({f}, variations)[1]}

SubmittedNames == {futures[i] : i \in DOMAIN futures}

\* C25: for every number of variations, the filenames the dispatch loop
\* submits to the adapter are among those the pre-flight collision check
\* tests, and once the loop has ended the two sets are equal, so every image a
\* worker writes was covered by the check.
C25_CheckCoversDispatch ==
    /\ SubmittedNames \subseteq TestedNames(args.variations)
    /\ WrittenImages \subseteq TestedNames(args.variations)
    /\ (Dispatched /\ pc # "submit") => SubmittedNames = TestedNames(args.variations)

\* Three slots dispatched after a check that passed, the third has written
\* its image.
C25_Witness ==
    /\ args.variations = 3 /\ Dispatched
    /\ SubmittedNames = {ImageName(1), ImageName(2), ImageName(3)}
    /\ TestedNames(3) = SubmittedNames
    /\ ImageName(3) \in WrittenImages

-----------------------------------------------------------------------------
(* Order of the pre-flight steps, and the exit code *)

CollisionErrors == SelectSeq(console, LAMBDA e : e.kind = "collision_error")

\* C30: the collision check runs before the dry-run branch: with dry_run=True
\* and a target file present, generate_from_prompt raises the collision error
\* naming the existing files and prints no cost estimate, no provider is
\* resolved and nothing else is printed before the error, as in a real run.
C30_DryRunCollides ==
    (args.dry_run /\ Collided) =>
        /\ pc \in {"start", "raised", "exit"}
        /\ Estimates = <<>>
        /\ provider = NoneV /\ calls = 0 /\ fs = fs0
        /\ pc # "start" =>
              /\ console[1] = [kind |-> "collision_error",
                               files |-> check_file_collisions(fs0, args.variations)[2]]
              /\ Len(CollisionErrors) = 1
        /\ pc = "exit" => exit_code = Some(1)

\* A dry run of three variations over a directory holding the third image
\* has raised.
C30_Witness ==
    /\ args.dry_run /\ args.variations = 3 /\ fs0 = {ImageName(3)}
    /\ pc = "raised"
    /\ console = <<[kind |-> "collision_error", files |-> <<ImageName(3)>>]>>

\* C27: every batch that passed the collision check and resolved a provider
\* ends with generate_from_prompt returning normally and the process exiting
\* with code 0, whatever the slots' outcomes: it never raises, and the exit
\* code is 0 also when every slot failed and when a rate limit cut it short.
C27_ExitZero ==
    (~Collided /\ provider # NoneV) =>
        /\ pc # "raised"
        /\ exit_code \in {NoneV, Some(0)}
        /\ pc = "exit" => exit_code = Some(0)

\* Every slot of a batch of three failed, one of them rate-limited, and the
\* process has exited with 0.
C27_Witness ==
    /\ args.variations = 3 /\ ~args.dry_run
    /\ pc = "exit" /\ exit_code = Some(0)
    /\ rate_limited
    /\ successful = 0 /\ failed >= 1
    /\ \A i \in Slots : ~Succeeded(i)

-----------------------------------------------------------------------------
(* The OpenAI adapter's retries *)

OpenAICall == request # NoneV /\ request[1].provider = "openai"
Retries == SelectSeq(console, LAMBDA e : e.kind = "retry")

\* The vendor's answer is the transient 403.
Transient403(r) ==
    r = Raised("APIError", <<"Error code: 403", " - forbidden">>, FALSE)

C23_State ==
    OpenAICall =>
        /\ api_calls <= 3 /\ attempt <= 3
        /\ api_calls <= attempt
        /\ attempt >= 1 => Len(Retries) = attempt - 1
        /\ \A k \in DOMAIN Retries :
              Retries[k].attempt = k /\ Retries[k].slept = 5
        /\ Len(Retries) >= 1 => api_calls >= Len(Retries)

C23_Step ==
    (OpenAICall /\ apc = "answered") =>
        LET r == response[1] IN
        IF Transient403(r) /\ attempt < 3
        THEN /\ attempt' = attempt + 1 /\ ret' = NoneV
             /\ console' = Append(console, [kind |-> "retry", attempt |-> attempt,
                                            slept |-> 5])
             /\ api_calls' = api_calls
        ELSE /\ apc' = "done" /\ attempt' = attempt /\ console' = console
             /\ api_calls' = api_calls
             /\ r.kind # "data" => IsFailure(ret'[1])
             /\ (r.kind = "raise" /\ r.type = "RateLimitError")
                   <=> IsRateLimited(ret'[1])

\* C23: one generate_image call of the OpenAI adapter makes at most 3 remote
\* calls, and sleeps the same fixed time before each further attempt; only an
\* APIError that is the transient 403 leads to another attempt, and only while
\* fewer than 3 were made; a rate-limit error, any other API error, any other
\* exception and a response without image data each make the call return a
\* Failure right after the attempt in which they occur.
C23_BoundedRetry == [](C23_State) /\ [][C23_Step]_vars

\* The third attempt has been answered with a 403 again, after two sleeps, and
\* the call has returned a Failure.
C23_Witness ==
    /\ OpenAICall /\ CallDone
    /\ api_calls = 3 /\ attempt = 3 /\ Len(Retries) = 2
    /\ Transient403(response[1])
    /\ IsFailure(ret[1]) /\ ~IsRateLimited(ret[1])

-----------------------------------------------------------------------------
(* Reference-image file handles *)

OpenHandles == {k \in DOMAIN image_files : image_files[k] = "open"}

\* C24: every reference-image file an adapter has opened during a
\* generate_image call is closed when the call has returned, whatever the
\* exit path: success, an error of the vendor, a rate limit, a reference that
\* is missing after earlier ones were opened, and each retry attempt.
C24_HandlesClosedAtReturn == CallDone => OpenHandles = {}

-----------------------------------------------------------------------------
(* After the short-circuit *)

AfterJoin == pc \in {"summary", "returned", "exit"}
SummaryPrinted == \E k \in DOMAIN console : console[k].kind = "summary"

C26_State ==
    /\ (AfterJoin \/ SummaryPrinted) =>
          /\ FinishedCalls = Slots /\ work_queue = <<>>
          /\ calls = args.variations
          /\ \A i \in Slots : future[i] # NoneV
    /\ SummaryPrinted => fin_i > args.variations

C26_Step ==
    /\ rate_limited =>
          /\ \A i \in Slots :
                /\ task[i] = "queued" => task'[i] \in {"queued", "running"}
                /\ task[i] = "running" => task'[i] \in {"running", "finished"}
          /\ \/ work_queue' = work_queue
             \/ work_queue # <<>> /\ work_queue' = Tail(work_queue)
          /\ futures' = futures
    /\ pc \in {"join", "summary", "returned", "exit"} =>
          /\ results' = results /\ meta' = meta /\ SlotLines' = SlotLines
          /\ successful' = successful /\ failed' = failed

=============================================================================
